---- MODULE Spec2Model ----
(***************************************************************************)
(* TaskScheduler of automation/scheduler.py as a state machine.            *)
(*                                                                         *)
(* Every `with self.lock:` block is one atomic action.  The statements of  *)
(* _run_task that run outside the lock (lines 35-45) are separate steps of *)
(* the firing thread.  A threading.Timer is a thread: it is alive from     *)
(* start() until its run() returns, which is after the callback returned   *)
(* or, for a cancelled timer, once the thread has woken up and left.       *)
(*                                                                         *)
(* Time: every stored time (next_run, last_run, a timer's deadline) is     *)
(* kept relative to the current time, so time.time() is 0 in every state   *)
(* and the passing of one second (Tick) lowers every stored time by one.   *)
(* The code reads a stored time only in max(0, next_run - time.time()), so *)
(* times in the past are all kept as -1 and overdue deadlines as 0.        *)
(***************************************************************************)
EXTENDS Integers, Sequences, FiniteSets, Bags, TLC

\* ---------------------------------------------------------------- bounds
\* The largest interval a call passes, and how many threads of one task may
\* be around that no task dict refers to (the threads of run_now, and the
\* timers that were replaced while they fired or slept).
MaxInterval == 2
MaxOrphans == 1
\* How many calls of _notify the model keeps.
MaxNotified == 2

\* ------------------------------------------------------------ unit strings
\* A Python str is a sequence of characters; str.lower() maps each one.
UpperChars == <<"A","B","C","D","E","F","G","H","I","J","K","L","M",
                "N","O","P","Q","R","S","T","U","V","W","X","Y","Z">>
LowerChars == <<"a","b","c","d","e","f","g","h","i","j","k","l","m",
                "n","o","p","q","r","s","t","u","v","w","x","y","z">>

LowerTable ==
    [c \in {UpperChars[i] : i \in DOMAIN UpperChars} |->
        LowerChars[CHOOSE i \in DOMAIN UpperChars : UpperChars[i] = c]]

LowerChar(c) == IF c \in DOMAIN LowerTable THEN LowerTable[c] ELSE c

StrLower_Identity(s) == s

\* str.lower()
StrLower(s) == [i \in DOMAIN s |-> LowerChar(s[i])]

U_seconds == <<"s","e","c","o","n","d","s">>
U_minutes == <<"m","i","n","u","t","e","s">>
U_hours == <<"h","o","u","r","s">>
U_days == <<"d","a","y","s">>
U_weeks == <<"w","e","e","k","s">>
U_Seconds == <<"S","e","c","o","n","d","s">>


\* The spellings of a lower-case word in upper- and lower-case letters.
UpperTable ==
    [c \in {LowerChars[i] : i \in DOMAIN LowerChars} |->
        UpperChars[CHOOSE i \in DOMAIN LowerChars : LowerChars[i] = c]]

CaseSpellings(u) ==
    {[i \in DOMAIN u |-> IF i \in S THEN UpperTable[u[i]] ELSE u[i]] :
        S \in SUBSET DOMAIN u}

\* allowed_units of _convert_to_seconds
AllowedUnitNames == {U_seconds, U_minutes, U_hours, U_days}

AllowedFactor(u) ==
    CASE u = U_seconds -> 1
      [] u = U_minutes -> 60
      [] u = U_hours -> 3600
      [] u = U_days -> 86400

\* The result of a call that may raise: the value, or the ValueError.
Raised == [raised |-> TRUE, value |-> 0]
Returned(v) == [raised |-> FALSE, value |-> v]

ConvertToSeconds_Lenient(interval, unit) ==
    LET lower == StrLower(unit)
    IN  IF lower \in AllowedUnitNames
        THEN Returned(interval * AllowedFactor(lower))
        ELSE Returned(interval)

ConvertToSeconds(interval, unit) ==
    LET lower == StrLower(unit)
    IN  IF lower \notin AllowedUnitNames
        THEN Raised
        ELSE Returned(interval * AllowedFactor(lower))

\* ----------------------------------------------------------------- values
None == <<>>
Some(v) == <<v>>

Max(a, b) == IF a >= b THEN a ELSE b

\* time.time(), the origin of every stored time
TimeNow == 0

\* Inputs of the calls.  schedule_task hands out the ids of TaskIds in order
\* (one task: tasks share nothing but self.running); 0 is an id it never
\* handed out.
Intervals == 1..MaxInterval
\* interval values no period can have; the code takes any int
NonPositive == {-1, 0}
GoodUnits == {U_seconds}
\* Every spelling of the four unit names a call may pass.
AnyCaseUnits ==
    UNION {CaseSpellings(u) : u \in {U_seconds, U_minutes, U_hours, U_days}}
BadUnits == {U_weeks, <<>>}
TaskIds == {1}
CallIds == {0} \cup TaskIds

\* What a task's function does when called: it returns this, or raises
\* an exception with this message.
ActionResult == "result"
ActionError == "boom"
\* The message of the exception when _notify raises: print writes to a
\* stream that may be closed, and formats a result of any type.
NotifyError == "sink"
\* Arguments of configure_notifications.
Recipients == {"ops"}
Conditions == {"any"}

\* ------------------------------------------------------------------ state
VARIABLES
    tasks,      \* self.tasks: the registry, task id -> task dict
    timer,      \* the Timer object task["timer"] refers to, per task
    orphans,    \* per task: the bag of threads no task dict refers to
    running,    \* self.running
    err,        \* the last call of the API raised ValueError
    got,        \* what the last get_task_status / list_scheduled_tasks
                \* returned: the dicts it refers to, and what they held then
    notification_config,    \* self.notification_config
    notified    \* the calls of _notify so far: <<task id, result>> each

vars == <<tasks, timer, orphans, running, err, got, notification_config, notified>>

\* A thread working for a task: a Timer or the Thread run_now starts.
\*   new        Timer created, start() not called
\*   waiting    Timer started, sleeping until dl
\*   cancelled  Timer cancelled while sleeping; its thread has not left yet
\*   check      in _run_task, before the first lock block (line 29)
\*   lcheck     inside the first lock block (lines 30-32), where the lock is
\*              modelled as taken in a step of its own
\*   start      passed the cancelled-check, before line 36
\*   called     inside the task's function (line 37)
\*   res, err   wrote last_result (line 38) / last_error (line 44)
\*   notify     wrote status completed and found a notification
\*              configuration (line 41), before the call of _notify
\*   resched    wrote status, before the second lock block (line 48)
\*   lresched   inside the second lock block (lines 49-53), likewise
\*   exiting    _run_task returned, the thread has not left yet
\*   dead       the thread has left (or was cancelled before start())
\* manual: the thread was started by run_now; out: how its function ended.
Thr(pc, dl, manual, out) == [pc |-> pc, dl |-> dl, manual |-> manual, out |-> out]

\* threading.Timer(delay, self._run_task, ...)
NewTimer == Thr("new", 0, FALSE, "none")
\* ... and timer.start()
StartedTimer(delay) == Thr("waiting", TimeNow + Max(0, delay), FALSE, "none")
DeadThread == Thr("dead", 0, FALSE, "none")

\* Thread.is_alive()
IsAlive(th) == th.pc \notin {"new", "dead"}

\* Timer.cancel(): sets the finished event; only a sleeping timer heeds it.
CancelTimer(th) ==
    CASE th.pc = "new" -> DeadThread
      [] th.pc = "waiting" -> Thr("cancelled", 0, FALSE, "none")
      [] OTHER -> th

\* Between the cancelled-check and the end of the reschedule step.
InFlightPcs ==
    {"start", "called", "res", "err", "notify", "resched", "lresched"}
\* In _run_task at all.
FiringPcs == {"check", "lcheck"} \cup InFlightPcs

\* A thread that can still act on the task once nothing refers to it.
Acts(th) == th.pc = "waiting" \/ th.pc \in FiringPcs

One(th) == SetToBag({th})
Drop(th) == IF Acts(th) THEN One(th) ELSE EmptyBag

\* A returned value: the task dicts it refers to (a dict is the same object
\* for as long as its task is registered) and a copy of what they held when
\* the call returned.
Nothing == [kind |-> "none", refs |-> <<>>, seen |-> <<>>]

TypeOK ==
    /\ DOMAIN tasks \subseteq TaskIds
    /\ Len(timer) = Len(tasks)
    /\ Len(orphans) = Len(tasks)
    /\ running \in BOOLEAN
    /\ err \in BOOLEAN
    /\ \A t \in DOMAIN tasks : BagCardinality(orphans[t]) <= MaxOrphans

Init ==
    /\ tasks = <<>>
    /\ timer = <<>>
    /\ orphans = <<>>
    /\ running = FALSE
    /\ err = FALSE
    /\ got = Nothing
    /\ notification_config = None
    /\ notified = <<>>

Exists(t) == t \in 1..Len(tasks)

\* ------------------------------------------------------------------- API
NewTask(seconds, unit) ==
    [interval |-> seconds, unit |-> unit, status |-> "scheduled",
     last_run |-> None, next_run |-> TimeNow + seconds,
     last_result |-> None, last_error |-> None, cancelled |-> FALSE]

ScheduleTask_AlwaysStarts(interval, unit) ==
    LET c == ConvertToSeconds(interval, unit) IN
    IF c.raised
    THEN /\ err' = TRUE
         /\ UNCHANGED <<tasks, timer, orphans, running, got, notification_config, notified>>
    ELSE /\ tasks' = Append(tasks, NewTask(c.value, unit))
         /\ timer' = Append(timer, StartedTimer(c.value))
         /\ orphans' = Append(orphans, EmptyBag)
         /\ err' = FALSE
         /\ UNCHANGED <<running, got, notification_config, notified>>

\* schedule_task
ScheduleTask(interval, unit) ==
    LET c == ConvertToSeconds(interval, unit) IN
    IF c.raised
    THEN /\ err' = TRUE
         /\ UNCHANGED <<tasks, timer, orphans, running, got, notification_config, notified>>
    ELSE /\ tasks' = Append(tasks, NewTask(c.value, unit))
         /\ timer' = Append(timer, IF running THEN StartedTimer(c.value) ELSE NewTimer)
         /\ orphans' = Append(orphans, EmptyBag)
         /\ err' = FALSE
         /\ UNCHANGED <<running, got, notification_config, notified>>

CancelledTasks_Toggle(T, t) ==
    [T EXCEPT ![t].cancelled = ~@,
              ![t].status = IF T[t].cancelled THEN "scheduled" ELSE "cancelled"]

\* cancel_task, lines 150 and 153, on the registry T
CancelledTasks(T, t) ==
    [T EXCEPT ![t].cancelled = TRUE, ![t].status = "cancelled"]

\* cancel_task, lines 151-152, on the timers M
CancelledTimers(M, t) == [M EXCEPT ![t] = CancelTimer(@)]

CancelTask(t) ==
    /\ err' = FALSE
    /\ IF Exists(t)
       THEN /\ tasks' = CancelledTasks(tasks, t)
            /\ timer' = CancelledTimers(timer, t)
       ELSE UNCHANGED <<tasks, timer>>
    /\ UNCHANGED <<orphans, running, got, notification_config, notified>>

UpdateTask_Reschedules(t, new_interval, unit) ==
    LET c == ConvertToSeconds(new_interval, unit) IN
    IF c.raised
    THEN /\ err' = TRUE
         /\ UNCHANGED <<tasks, timer, orphans, running, got, notification_config, notified>>
    ELSE /\ err' = FALSE
         /\ IF Exists(t)
            THEN /\ tasks' = [tasks EXCEPT ![t].interval = c.value,
                                           ![t].unit = unit,
                                           ![t].status = "scheduled",
                                           ![t].next_run = TimeNow + c.value]
                 /\ timer' = [timer EXCEPT ![t] = StartedTimer(c.value)]
                 /\ orphans' = [orphans EXCEPT ![t] = @ (+) Drop(CancelTimer(timer[t]))]
            ELSE UNCHANGED <<tasks, timer, orphans>>
         /\ UNCHANGED <<running, got, notification_config, notified>>

UpdateTask_KeepsOldTimer(t, new_interval, unit) ==
    LET c == ConvertToSeconds(new_interval, unit) IN
    IF c.raised
    THEN /\ err' = TRUE
         /\ UNCHANGED <<tasks, timer, orphans, running, got, notification_config, notified>>
    ELSE /\ err' = FALSE
         /\ IF Exists(t)
            THEN /\ tasks' = [tasks EXCEPT ![t].interval = c.value,
                                           ![t].unit = unit,
                                           ![t].next_run = TimeNow + c.value]
                 /\ timer' = [timer EXCEPT ![t] = StartedTimer(c.value)]
                 /\ orphans' = [orphans EXCEPT ![t] = @ (+) Drop(timer[t])]
            ELSE UNCHANGED <<tasks, timer, orphans>>
         /\ UNCHANGED <<running, got, notification_config, notified>>

\* update_task
UpdateTask(t, new_interval, unit) ==
    LET c == ConvertToSeconds(new_interval, unit) IN
    IF c.raised
    THEN /\ err' = TRUE
         /\ UNCHANGED <<tasks, timer, orphans, running, got, notification_config, notified>>
    ELSE /\ err' = FALSE
         /\ IF Exists(t)
            THEN /\ tasks' = [tasks EXCEPT ![t].interval = c.value,
                                           ![t].unit = unit,
                                           ![t].next_run = TimeNow + c.value]
                 /\ timer' = [timer EXCEPT ![t] = StartedTimer(c.value)]
                 /\ orphans' = [orphans EXCEPT ![t] = @ (+) Drop(CancelTimer(timer[t]))]
            ELSE UNCHANGED <<tasks, timer, orphans>>
         /\ UNCHANGED <<running, got, notification_config, notified>>

RunNow_Unchecked(t) ==
    /\ err' = FALSE
    /\ IF Exists(t)
       THEN /\ timer' = [timer EXCEPT ![t] = CancelTimer(@)]
            /\ orphans' = [orphans EXCEPT ![t] = @ (+) One(Thr("check", 0, TRUE, "none"))]
       ELSE UNCHANGED <<timer, orphans>>
    /\ UNCHANGED <<tasks, running, got, notification_config, notified>>

\* run_now
RunNow(t) ==
    /\ err' = FALSE
    /\ IF Exists(t) /\ ~tasks[t].cancelled
       THEN /\ timer' = [timer EXCEPT ![t] = CancelTimer(@)]
            /\ orphans' = [orphans EXCEPT ![t] = @ (+) One(Thr("check", 0, TRUE, "none"))]
       ELSE UNCHANGED <<timer, orphans>>
    /\ UNCHANGED <<tasks, running, got, notification_config, notified>>

\* list_scheduled_tasks: list(self.tasks.values()), a new list of the dicts
ListScheduledTasks ==
    /\ got' = [kind |-> "list",
               refs |-> [i \in DOMAIN tasks |-> i],
               seen |-> tasks]
    /\ err' = FALSE
    /\ UNCHANGED <<tasks, timer, orphans, running, notification_config, notified>>

GetTaskStatus_First(t) ==
    /\ got' = [kind |-> "status",
               refs |-> IF Exists(t) THEN <<t>> ELSE [i \in DOMAIN tasks |-> i],
               seen |-> IF Exists(t) THEN <<tasks[t]>> ELSE tasks]
    /\ err' = FALSE
    /\ UNCHANGED <<tasks, timer, orphans, running, notification_config, notified>>

\* get_task_status: self.tasks.get(task_id), the dict itself or None (a value
\* that refers to no dict)
GetTaskStatus(t) ==
    /\ got' = [kind |-> "status",
               refs |-> IF Exists(t) THEN <<t>> ELSE <<>>,
               seen |-> IF Exists(t) THEN <<tasks[t]>> ELSE <<>>]
    /\ err' = FALSE
    /\ UNCHANGED <<tasks, timer, orphans, running, notification_config, notified>>

\* What the caller reads through the value it got.
Deref(v) == [i \in DOMAIN v.refs |-> tasks[v.refs[i]]]

StartScheduler_FullInterval ==
    /\ err' = FALSE
    /\ IF ~running
       THEN /\ running' = TRUE
            /\ timer' = [t \in DOMAIN timer |->
                           IF ~tasks[t].cancelled /\ ~IsAlive(timer[t])
                           THEN StartedTimer(tasks[t].interval)
                           ELSE timer[t]]
       ELSE UNCHANGED <<running, timer>>
    /\ UNCHANGED <<tasks, orphans, got, notification_config, notified>>

\* start_scheduler
StartScheduler ==
    /\ err' = FALSE
    /\ IF ~running
       THEN /\ running' = TRUE
            /\ timer' = [t \in DOMAIN timer |->
                           IF ~tasks[t].cancelled /\ ~IsAlive(timer[t])
                           THEN StartedTimer(Max(0, tasks[t].next_run - TimeNow))
                           ELSE timer[t]]
       ELSE UNCHANGED <<running, timer>>
    /\ UNCHANGED <<tasks, orphans, got, notification_config, notified>>

StopScheduler_Teardown ==
    /\ err' = FALSE
    /\ running' = FALSE
    /\ timer' = [t \in DOMAIN timer |-> CancelTimer(timer[t])]
    /\ tasks' = [t \in DOMAIN tasks |-> CancelledTasks(tasks, t)[t]]
    /\ UNCHANGED <<orphans, got, notification_config, notified>>

\* stop_scheduler
StopScheduler ==
    /\ err' = FALSE
    /\ running' = FALSE
    /\ timer' = [t \in DOMAIN timer |-> CancelTimer(timer[t])]
    /\ UNCHANGED <<tasks, orphans, got, notification_config, notified>>

\* configure_notifications: one assignment, without the lock
ConfigureNotifications(recipient, conditions) ==
    /\ notification_config' =
          Some([recipient |-> recipient, conditions |-> conditions])
    /\ err' = FALSE
    /\ UNCHANGED <<tasks, timer, orphans, running, got, notified>>

\* ------------------------------------------------------------ the threads
\* The threads of task t: <<TRUE, th>> is the Timer task["timer"] refers to,
\* <<FALSE, th>> a thread nothing refers to.
ThreadsOf(t) ==
    {<<TRUE, timer[t]>>} \cup {<<FALSE, th>> : th \in BagToSet(orphans[t])}

\* Thread th of task t moves on to state nw.
Move(t, cur, th, nw) ==
    IF cur
    THEN /\ timer' = [timer EXCEPT ![t] = nw]
         /\ UNCHANGED orphans
    ELSE /\ orphans' = [orphans EXCEPT ![t] = (@ (-) One(th)) (+) Drop(nw)]
         /\ UNCHANGED timer

\* One second passes: every stored time is one second nearer or further back.
ShiftTime(x) == IF x < 0 THEN x ELSE x - 1
ShiftOpt(o) == IF o = None THEN None ELSE Some(ShiftTime(o[1]))
ShiftThr(th) == IF th.pc = "waiting" THEN [th EXCEPT !.dl = Max(0, @ - 1)] ELSE th
Later(th) == [th EXCEPT !.dl = @ + 1]
ShiftBag(B) ==
    [r \in {ShiftThr(th) : th \in BagToSet(B)} |->
        IF r.pc # "waiting" THEN CopiesIn(r, B)
        ELSE IF r.dl = 0 THEN CopiesIn(r, B) + CopiesIn(Later(r), B)
        ELSE CopiesIn(Later(r), B)]

ShiftTask(task) ==
    [task EXCEPT !.next_run = ShiftTime(@), !.last_run = ShiftOpt(@)]

Tick ==
    /\ tasks' = [t \in DOMAIN tasks |-> ShiftTask(tasks[t])]
    /\ timer' = [t \in DOMAIN timer |-> ShiftThr(timer[t])]
    /\ orphans' = [t \in DOMAIN orphans |-> ShiftBag(orphans[t])]
    /\ got' = [got EXCEPT !.seen = [i \in DOMAIN @ |-> ShiftTask(@[i])]]
    /\ UNCHANGED <<running, err, notification_config, notified>>

\* Timer.run(): finished.wait(interval) timed out and finished is not set, so
\* the timer calls _run_task.
Expire(t, cur, th) ==
    /\ th.pc = "waiting"
    /\ th.dl <= TimeNow
    /\ Move(t, cur, th, Thr("check", 0, th.manual, "none"))
    /\ UNCHANGED <<tasks, running, err, got, notification_config, notified>>

\* The thread of a Timer leaves: a cancelled one after waking up, a fired one
\* after _run_task returned.
TimerExit(t) ==
    /\ timer[t].pc \in {"cancelled", "exiting"}
    /\ timer' = [timer EXCEPT ![t] = DeadThread]
    /\ UNCHANGED <<tasks, orphans, running, err, got, notification_config, notified>>

RunTaskCheck_NoFlag(t, cur, th) ==
    /\ th.pc = "check"
    /\ Move(t, cur, th, Thr("start", 0, th.manual, "none"))
    /\ UNCHANGED <<tasks, running, err, got, notification_config, notified>>

\* _run_task, lines 29-32
RunTaskCheck(t, cur, th) ==
    /\ th.pc = "check"
    /\ Move(t, cur, th,
            IF tasks[t].cancelled
            THEN Thr("exiting", 0, th.manual, "none")
            ELSE Thr("start", 0, th.manual, "none"))
    /\ UNCHANGED <<tasks, running, err, got, notification_config, notified>>

RunTaskCall_NoStamp(t, cur, th) ==
    /\ th.pc = "start"
    /\ Move(t, cur, th, Thr("called", 0, th.manual, "none"))
    /\ UNCHANGED <<tasks, running, err, got, notification_config, notified>>

\* _run_task, line 36 and the call of line 37
RunTaskCall(t, cur, th) ==
    /\ th.pc = "start"
    /\ tasks' = [tasks EXCEPT ![t].last_run = Some(TimeNow)]
    /\ Move(t, cur, th, Thr("called", 0, th.manual, "none"))
    /\ UNCHANGED <<running, err, got, notification_config, notified>>

\* _run_task: the function returns and line 38 stores its result
RunTaskReturn(t, cur, th) ==
    /\ th.pc = "called"
    /\ tasks' = [tasks EXCEPT ![t].last_result = Some(ActionResult)]
    /\ Move(t, cur, th, Thr("res", 0, th.manual, "ok"))
    /\ UNCHANGED <<running, err, got, notification_config, notified>>

\* _run_task: the function raises and line 44 stores the message
RunTaskRaise(t, cur, th) ==
    /\ th.pc = "called"
    /\ tasks' = [tasks EXCEPT ![t].last_error = Some(ActionError)]
    /\ Move(t, cur, th, Thr("err", 0, th.manual, "err"))
    /\ UNCHANGED <<running, err, got, notification_config, notified>>

RunTaskStatus_NotifiesAlways(t, cur, th) ==
    /\ th.pc \in {"res", "err"}
    /\ tasks' = [tasks EXCEPT ![t].status =
                    IF th.pc = "res" THEN "completed" ELSE "error"]
    /\ Move(t, cur, th,
            Thr(IF notification_config # None THEN "notify" ELSE "resched",
                0, th.manual, th.out))
    /\ UNCHANGED <<running, err, got, notification_config, notified>>

\* _run_task, line 39 (after line 38) and the test of line 41, or line 45
\* (after line 44)
RunTaskStatus(t, cur, th) ==
    /\ th.pc \in {"res", "err"}
    /\ tasks' = [tasks EXCEPT ![t].status =
                    IF th.pc = "res" THEN "completed" ELSE "error"]
    /\ Move(t, cur, th,
            Thr(IF th.pc = "res" /\ notification_config # None
                THEN "notify" ELSE "resched",
                0, th.manual, th.out))
    /\ UNCHANGED <<running, err, got, notification_config, notified>>

\* _run_task, line 42: _notify(task_id, result) is called and returns
RunTaskNotify(t, cur, th) ==
    /\ th.pc = "notify"
    /\ notified' = Append(notified, <<t, ActionResult>>)
    /\ Move(t, cur, th, Thr("resched", 0, th.manual, th.out))
    /\ UNCHANGED <<tasks, running, err, got, notification_config>>

\* _run_task, line 42: _notify is called and raises inside the try block, so
\* line 44 stores the message
RunTaskNotifyRaise(t, cur, th) ==
    /\ th.pc = "notify"
    /\ notified' = Append(notified, <<t, ActionResult>>)
    /\ tasks' = [tasks EXCEPT ![t].last_error = Some(NotifyError)]
    /\ Move(t, cur, th, Thr("err", 0, th.manual, th.out))
    /\ UNCHANGED <<running, err, got, notification_config>>

MayReschedule_OnSuccess(t, th) == running /\ ~tasks[t].cancelled /\ th.out = "ok"
MayReschedule_TimerOnly(t, th) == running /\ ~tasks[t].cancelled /\ ~th.manual
MayReschedule_IgnoresRunning(t, th) == ~tasks[t].cancelled

\* The condition of line 49.
MayReschedule(t, th) == running /\ ~tasks[t].cancelled

\* _run_task, lines 48-53
RunTaskReschedule(t, cur, th) ==
    /\ th.pc = "resched"
    /\ IF MayReschedule(t, th)
       THEN /\ tasks' = [tasks EXCEPT ![t].next_run = TimeNow + tasks[t].interval]
            /\ timer' = [timer EXCEPT ![t] = StartedTimer(tasks[t].interval)]
            /\ orphans' = [orphans EXCEPT ![t] =
                              IF cur THEN @ ELSE (@ (-) One(th)) (+) Drop(timer[t])]
       ELSE /\ Move(t, cur, th, Thr("exiting", 0, th.manual, "none"))
            /\ UNCHANGED tasks
    /\ UNCHANGED <<running, err, got, notification_config, notified>>

ThreadStep(t, cur, th) ==
    \/ Expire(t, cur, th)
    \/ RunTaskCheck(t, cur, th)
    \/ RunTaskCall(t, cur, th)
    \/ RunTaskReturn(t, cur, th)
    \/ RunTaskRaise(t, cur, th)
    \/ RunTaskStatus(t, cur, th)
    \/ RunTaskReschedule(t, cur, th)

\* The bounds of the model: the registry holds the tasks of TaskIds, and a
\* task has at most MaxOrphans threads that nothing refers to.
RoomForTask == Len(tasks) < Cardinality(TaskIds)
OrphansBounded == \A t \in DOMAIN orphans' : BagCardinality(orphans'[t]) <= MaxOrphans

ThreadNext ==
    \/ Tick
    \/ \E t \in DOMAIN tasks : TimerExit(t)
    \/ \E t \in DOMAIN tasks : \E x \in ThreadsOf(t) : ThreadStep(t, x[1], x[2])

Next ==
    \/ \E i \in Intervals, u \in GoodUnits : RoomForTask /\ ScheduleTask(i, u)
    \/ \E t \in CallIds : CancelTask(t)
    \/ \E t \in CallIds, i \in Intervals, u \in GoodUnits :
          UpdateTask(t, i, u) /\ OrphansBounded
    \/ \E t \in CallIds : RunNow(t) /\ OrphansBounded
    \/ StartScheduler
    \/ StopScheduler
    \/ ThreadNext

Spec == Init /\ [][Next]_vars

\* The calls with a unit that is not allowed, in a program that schedules,
\* cancels, starts and stops.
BadUnitCall ==
    \/ \E i \in Intervals, u \in BadUnits : ScheduleTask(i, u)
    \/ \E t \in CallIds, i \in Intervals, u \in BadUnits : UpdateTask(t, i, u)

NextCfg ==
    \/ \E i \in Intervals, u \in GoodUnits : RoomForTask /\ ScheduleTask(i, u)
    \/ \E t \in CallIds : CancelTask(t)
    \/ StartScheduler
    \/ StopScheduler
    \/ ThreadNext
    \/ BadUnitCall

SpecCfg == Init /\ [][NextCfg]_vars

\* The reading calls, in a program that schedules, cancels, starts and stops.
ReadCall ==
    \/ ListScheduledTasks
    \/ \E t \in CallIds : GetTaskStatus(t)

NextRead ==
    \/ \E i \in Intervals, u \in GoodUnits : RoomForTask /\ ScheduleTask(i, u)
    \/ \E t \in CallIds : CancelTask(t)
    \/ StartScheduler
    \/ StopScheduler
    \/ ThreadNext
    \/ ReadCall

SpecRead == Init /\ [][NextRead]_vars

\* Calls with any interval, positive or not, in a program that schedules,
\* updates, cancels, starts and stops.
NextIvl ==
    \/ \E i \in Intervals \cup NonPositive, u \in GoodUnits :
          RoomForTask /\ ScheduleTask(i, u)
    \/ \E t \in CallIds, i \in Intervals \cup NonPositive, u \in GoodUnits :
          UpdateTask(t, i, u) /\ OrphansBounded
    \/ \E t \in CallIds : CancelTask(t)
    \/ StartScheduler
    \/ StopScheduler
    \/ ThreadNext

SpecIvl == Init /\ [][NextIvl]_vars

\* A task whose function returns whenever it is called, in a program that
\* schedules, cancels, starts and stops.  Time passes, and a thread that can
\* take a step takes one: the function returns, a timer that is due fires, a
\* thread that is done leaves.
ThreadStepOk(t, cur, th) ==
    \/ Expire(t, cur, th)
    \/ RunTaskCheck(t, cur, th)
    \/ RunTaskCall(t, cur, th)
    \/ RunTaskReturn(t, cur, th)
    \/ RunTaskStatus(t, cur, th)
    \/ RunTaskReschedule(t, cur, th)

ThreadNextOk ==
    \/ \E t \in DOMAIN tasks : TimerExit(t)
    \/ \E t \in DOMAIN tasks : \E x \in ThreadsOf(t) : ThreadStepOk(t, x[1], x[2])

NextLive ==
    \/ \E i \in Intervals, u \in GoodUnits : RoomForTask /\ ScheduleTask(i, u)
    \/ \E t \in CallIds : CancelTask(t)
    \/ StartScheduler
    \/ StopScheduler
    \/ Tick
    \/ ThreadNextOk

SpecLive ==
    /\ Init /\ [][NextLive]_vars
    /\ WF_vars(Tick)
    /\ WF_vars(ThreadNextOk)

\* ------------------------------------------------- the lock, step by step
\* In the actions above a `with self.lock:` block is one step.  Here the lock
\* blocks of _run_task take the lock in one step and do their work and give
\* it back in another, so that a state shows which firing holds the lock; a
\* call of the API waits for the lock and then runs as one step.
LockPcs_WholeFiring ==
    {"lcheck", "start", "called", "res", "err", "resched", "lresched"}

\* Where a firing is inside `with self.lock:` (lines 29-32, 48-53).
LockPcs == {"lcheck", "lresched"}

HoldsLock_InAction(th) == th.pc \in LockPcs \cup {"called"}

HoldsLock(th) == th.pc \in LockPcs

LockFree ==
    \A t \in DOMAIN tasks : \A x \in ThreadsOf(t) : ~HoldsLock(x[2])

\* line 29 and line 48: with self.lock
AcquireLock(t, cur, th) ==
    /\ th.pc \in {"check", "resched"}
    /\ LockFree
    /\ Move(t, cur, th, [th EXCEPT !.pc = IF @ = "check" THEN "lcheck" ELSE "lresched"])
    /\ UNCHANGED <<tasks, running, err, got, notification_config, notified>>

\* lines 30-32, and the lock given back
LockedCheck(t, cur, th) ==
    /\ th.pc = "lcheck"
    /\ Move(t, cur, th,
            IF tasks[t].cancelled
            THEN Thr("exiting", 0, th.manual, "none")
            ELSE Thr("start", 0, th.manual, "none"))
    /\ UNCHANGED <<tasks, running, err, got, notification_config, notified>>

\* lines 49-53, and the lock given back
LockedReschedule(t, cur, th) ==
    /\ th.pc = "lresched"
    /\ IF MayReschedule(t, th)
       THEN /\ tasks' = [tasks EXCEPT ![t].next_run = TimeNow + tasks[t].interval]
            /\ timer' = [timer EXCEPT ![t] = StartedTimer(tasks[t].interval)]
            /\ orphans' = [orphans EXCEPT ![t] =
                              IF cur THEN @ ELSE (@ (-) One(th)) (+) Drop(timer[t])]
       ELSE /\ Move(t, cur, th, Thr("exiting", 0, th.manual, "none"))
            /\ UNCHANGED tasks
    /\ UNCHANGED <<running, err, got, notification_config, notified>>

LockThreadStep(t, cur, th) ==
    \/ Expire(t, cur, th)
    \/ AcquireLock(t, cur, th)
    \/ LockedCheck(t, cur, th)
    \/ RunTaskCall(t, cur, th)
    \/ RunTaskReturn(t, cur, th)
    \/ RunTaskRaise(t, cur, th)
    \/ RunTaskStatus(t, cur, th)
    \/ LockedReschedule(t, cur, th)

\* Two tasks of the same interval, in a program that starts, stops and
\* cancels.
TwoTaskIds == {1, 2}

NextTwo ==
    \/ \E u \in GoodUnits :
          /\ Len(tasks) < Cardinality(TwoTaskIds)
          /\ LockFree
          /\ ScheduleTask(MaxInterval, u)
    \/ LockFree /\ StartScheduler
    \/ LockFree /\ StopScheduler
    \/ \E t \in DOMAIN tasks : LockFree /\ CancelTask(t)
    \/ Tick
    \/ \E t \in DOMAIN tasks : TimerExit(t)
    \/ \E t \in DOMAIN tasks : \E x \in ThreadsOf(t) : LockThreadStep(t, x[1], x[2])

SpecTwo == Init /\ [][NextTwo]_vars

\* Notifications: a program that configures them, schedules, cancels, starts
\* and stops.  MaxNotified bounds the calls of _notify that are kept.
NotifyThreadStep(t, cur, th) ==
    \/ ThreadStep(t, cur, th)
    \/ RunTaskNotify(t, cur, th)
    \/ RunTaskNotifyRaise(t, cur, th)

NextNotify ==
    \/ \E i \in Intervals, u \in GoodUnits : RoomForTask /\ ScheduleTask(i, u)
    \/ \E t \in CallIds : CancelTask(t)
    \/ \E r \in Recipients, c \in Conditions : ConfigureNotifications(r, c)
    \/ StartScheduler
    \/ StopScheduler
    \/ Tick
    \/ \E t \in DOMAIN tasks : TimerExit(t)
    \/ \E t \in DOMAIN tasks : \E x \in ThreadsOf(t) :
          NotifyThreadStep(t, x[1], x[2]) /\ Len(notified') <= MaxNotified

SpecNotify == Init /\ [][NextNotify]_vars

\* The calls that pass a unit, with every spelling of the four names, in a
\* scheduler that is not started.
NextUnits ==
    \/ \E i \in Intervals, u \in AnyCaseUnits : RoomForTask /\ ScheduleTask(i, u)
    \/ \E t \in CallIds, i \in Intervals, u \in AnyCaseUnits : UpdateTask(t, i, u)

SpecUnits == Init /\ [][NextUnits]_vars

\* ---------------------------------------------------------------- claims
\* How many threads of task t satisfy P.
CountIn(B, P(_)) == BagCardinality([th \in {x \in BagToSet(B) : P(x)} |-> B[th]])
ThreadCount(t, P(_)) == (IF P(timer[t]) THEN 1 ELSE 0) + CountIn(orphans[t], P)

InFlight(th) == th.pc \in InFlightPcs
Outstanding(th) == th.pc = "waiting"
\* Passed the cancelled-check and has not yet recorded its outcome.
Unrecorded(th) == th.pc \in {"start", "called", "res", "err"}

\* C1: no two firings of one task are in flight (between the cancelled-check
\* and the end of the reschedule step) at the same time.
C1_NoOverlappingFirings ==
    \A t \in DOMAIN tasks : ThreadCount(t, InFlight) <= 1

\* C2: a task that is not cancelled has at most one outstanding timer
\* (started, not expired, not cancelled).
C2_OneOutstandingTimer ==
    \A t \in DOMAIN tasks :
        ~tasks[t].cancelled => ThreadCount(t, Outstanding) <= 1

\* A step that arms a timer for task t: update_task, start_scheduler for a
\* task it finds without a live timer, the reschedule step of a firing.
ArmsTimerFor(t) ==
    \/ \E i \in Intervals, u \in GoodUnits : UpdateTask(t, i, u)
    \/ StartScheduler /\ ~running /\ ~tasks[t].cancelled /\ ~IsAlive(timer[t])
    \/ \E x \in ThreadsOf(t) :
          RunTaskReschedule(t, x[1], x[2]) /\ MayReschedule(t, x[2])

\* C3: a timer of a task is armed only while no firing of that task is in
\* flight with its outcome not yet recorded.
C3_NoTimerBeforeOutcome ==
    [][\A t \in DOMAIN tasks :
          ArmsTimerFor(t) => ThreadCount(t, Unrecorded) = 0]_vars

\* No firing of task t has begun: none is past the cancelled-check, and
\* line 36 never ran.
NeverBegan(t) == tasks[t].last_run = None /\ ThreadCount(t, InFlight) = 0
CancelledUnfired(t) ==
    tasks[t].cancelled /\ tasks[t].status = "cancelled" /\ NeverBegan(t)

\* C4: when cancel returns before any firing of the task has begun, the task
\* is cancelled with status cancelled and no firing begun, and every later
\* step keeps it so: its action is never executed.
C4_CancelBeforeFiringIsFinal ==
    [][\A t \in DOMAIN tasks :
          /\ (CancelTask(t) /\ NeverBegan(t)) => CancelledUnfired(t)'
          /\ CancelledUnfired(t) => CancelledUnfired(t)']_vars

\* C4 witness: a cancelled, never fired task one of whose timers expired
\* after all and gave up at the cancelled-check.
C4_Witness ==
    \E t \in DOMAIN tasks : CancelledUnfired(t) /\ timer[t].pc = "exiting"

\* C5: a cancelled task has no armed timer.
C5_CancelledHasNoTimer ==
    \A t \in DOMAIN tasks :
        tasks[t].cancelled => ThreadCount(t, Outstanding) = 0

Firing(th) == th.pc \in FiringPcs
FullTimer(t) == Thr("waiting", TimeNow + tasks[t].interval, FALSE, "none")

\* C6: a firing whose action raises records last_error and status error,
\* and at its reschedule step, the scheduler running and the task not
\* cancelled, arms a timer of one full interval and sets next_run, as a
\* firing that succeeded does.
C6_ErrorKeepsRecurrence ==
    [][\A t \in DOMAIN tasks : \A x \in ThreadsOf(t) :
          /\ (RunTaskStatus(t, x[1], x[2]) /\ x[2].out = "err") =>
                /\ tasks'[t].status = "error"
                /\ tasks'[t].last_error = Some(ActionError)
          /\ (/\ RunTaskReschedule(t, x[1], x[2])
              /\ x[2].out = "err"
              /\ running /\ ~tasks[t].cancelled) =>
                /\ timer'[t] = FullTimer(t)
                /\ tasks'[t].next_run = TimeNow + tasks[t].interval]_vars

\* C6 witness: a timer's firing whose function raised has recorded the error
\* and is at its reschedule step, the scheduler running, the task not
\* cancelled.
C6_Witness ==
    \E t \in DOMAIN tasks :
        /\ tasks[t].status = "error"
        /\ tasks[t].last_error = Some(ActionError)
        /\ timer[t] = Thr("resched", 0, FALSE, "err")
        /\ running /\ ~tasks[t].cancelled

\* C7 as stated: the reschedule step of a firing that run_now started leaves
\* next_run as it was.
C7_RunNowKeepsNextRun ==
    [][\A t \in DOMAIN tasks : \A x \in ThreadsOf(t) :
          (RunTaskReschedule(t, x[1], x[2]) /\ x[2].manual) =>
              tasks'[t].next_run = tasks[t].next_run]_vars

\* C7 amended: run_now on a task that is not cancelled cancels the pending
\* timer and starts a firing at once, leaving next_run; the reschedule step
\* of that firing sets next_run to now plus the interval and arms a timer of
\* one full interval when the scheduler is running and the task is not
\* cancelled, and otherwise leaves next_run and the timer as they are.
C7_RunNowResetsNextRun ==
    [][\A t \in DOMAIN tasks :
          /\ (RunNow(t) /\ ~tasks[t].cancelled) =>
                /\ ThreadCount(t, Firing)' = ThreadCount(t, Firing) + 1
                /\ timer'[t].pc # "waiting"
                /\ tasks'[t].next_run = tasks[t].next_run
          /\ \A x \in ThreadsOf(t) :
                (RunTaskReschedule(t, x[1], x[2]) /\ x[2].manual) =>
                    IF running /\ ~tasks[t].cancelled
                    THEN /\ tasks'[t].next_run = TimeNow + tasks[t].interval
                         /\ timer'[t] = FullTimer(t)
                    ELSE /\ tasks'[t].next_run = tasks[t].next_run
                         /\ timer'[t] = timer[t]]_vars

\* C7 witness: a firing that run_now started is at its reschedule step, the
\* scheduler running, the task not cancelled, and next_run is not what the
\* step will make it.
C7_Witness ==
    \E t \in DOMAIN tasks : \E x \in ThreadsOf(t) :
        /\ x[2].manual /\ x[2].pc = "resched"
        /\ running /\ ~tasks[t].cancelled
        /\ tasks[t].next_run # TimeNow + tasks[t].interval

\* C8: when start() is called on a stopped scheduler, every task that is not
\* cancelled has, once start() returned, an armed timer or a firing under
\* way (which arms one at its end).
C8_StartResumesEveryTask ==
    [][(StartScheduler /\ ~running) =>
          \A t \in DOMAIN tasks :
              ~tasks[t].cancelled =>
                  ThreadCount(t, Outstanding)' + ThreadCount(t, Firing)' > 0]_vars

\* C9: what status() or list() returned stays what it was when the call
\* returned: no later change of a task shows through it.
C9_ReturnedValueIsSnapshot ==
    got.kind # "none" => Deref(got) = got.seen

\* Calls with a unit that is not allowed leave the scheduler as it is and
\* raise.
Refused == err' /\ UNCHANGED <<tasks, timer, orphans, running>>

\* C10: schedule and update_interval with a unit outside seconds, minutes,
\* hours, days raise the configuration error and change nothing: no task is
\* created, no timer armed, no field of an existing task changed.
C10_BadUnitChangesNothing ==
    [][\A i \in Intervals, u \in BadUnits :
          /\ ScheduleTask(i, u) => Refused
          /\ \A t \in CallIds : UpdateTask(t, i, u) => Refused]_vars

\* C10 witness: a call was refused while the task was registered and its
\* timer armed.
C10_Witness ==
    /\ err
    /\ \E t \in DOMAIN tasks : timer[t].pc = "waiting"

\* C11: the interval of every registered task is above zero, calls with an
\* interval of zero or below being refused.
C11_IntervalPositive ==
    \A t \in DOMAIN tasks : tasks[t].interval > 0

\* C12: if from some moment on the scheduler is running and the task is
\* registered and not cancelled, the task's function returning whenever it
\* is called, then the task gets to status completed with the returned value
\* in last_result.
C12_EventuallyCompleted ==
    \A t \in TaskIds :
        <>[](Exists(t) /\ running /\ ~tasks[t].cancelled) =>
            <>(/\ Exists(t)
               /\ tasks[t].status = "completed"
               /\ tasks[t].last_result = Some(ActionResult))

\* C13: cancel is idempotent: whatever state cancel is called in, it raises
\* nothing and leaves the task cancelled, with status cancelled and its timer
\* cancelled, and a second cancel right after it would give that same state
\* again.
C13_CancelTwiceIsCancelOnce ==
    [][\A t \in CallIds :
          CancelTask(t) =>
              /\ ~err'
              /\ UNCHANGED <<orphans, running>>
              /\ Exists(t) =>
                    /\ tasks'[t].cancelled
                    /\ tasks'[t].status = "cancelled"
                    /\ timer'[t].pc \notin {"new", "waiting"}
                    /\ CancelledTasks(tasks', t) = tasks'
                    /\ CancelledTimers(timer', t) = timer'
              /\ ~Exists(t) => UNCHANGED <<tasks, timer>>]_vars

\* C13 witness: cancel has acted on a task whose timer was sleeping.
C13_Witness ==
    \E t \in DOMAIN tasks :
        /\ tasks[t].cancelled
        /\ tasks[t].status = "cancelled"
        /\ timer[t].pc = "cancelled"

\* C14: no step sets the status of a task to scheduled: a task has that
\* status from its creation by schedule only, and a cancelled task never has
\* it.
C14_NeverBackToScheduled ==
    [][\A t \in DOMAIN tasks :
          /\ tasks[t].status # "scheduled" => tasks'[t].status # "scheduled"
          /\ tasks[t].cancelled => tasks'[t].status # "scheduled"
          /\ tasks'[t].cancelled => tasks'[t].status # "scheduled"]_vars

\* C14 witness: update_task has acted on a cancelled task (nothing else arms
\* a timer for one).
C14_Witness ==
    \E t \in DOMAIN tasks :
        /\ tasks[t].cancelled
        /\ timer[t].pc = "waiting"
        /\ tasks[t].status = "cancelled"

\* C15: stop() sets running to false and cancels the timer of every task,
\* and leaves every field of every task as it is: cancelled, status,
\* interval, next_run, last_result, last_error.
C15_StopOnlyPauses ==
    [][StopScheduler =>
          /\ ~running'
          /\ ~err'
          /\ tasks' = tasks
          /\ \A t \in DOMAIN tasks :
                /\ timer'[t] = CancelTimer(timer[t])
                /\ timer'[t].pc \notin {"new", "waiting"}]_vars

\* C15 witness: the scheduler is stopped and a task that is not cancelled,
\* has never fired and has no other thread has its timer cancelled: only
\* stop() does that.
C15_Witness ==
    /\ ~running
    /\ \E t \in DOMAIN tasks :
          /\ ~tasks[t].cancelled
          /\ tasks[t].status = "scheduled"
          /\ tasks[t].last_run = None
          /\ orphans[t] = EmptyBag
          /\ timer[t].pc = "cancelled"

\* C16: firings of distinct tasks are not serialized: while one task executes
\* its function, the firing of another task that comes to the first lock
\* block can enter it.
C16_FiringsNotSerialized ==
    \A a \in DOMAIN tasks : \A b \in DOMAIN tasks \ {a} :
        (timer[a].pc = "called" /\ timer[b].pc = "check") =>
            ENABLED AcquireLock(b, TRUE, timer[b])

\* C16 witness: two different tasks are both inside their functions.
C16_Witness ==
    \E a \in DOMAIN tasks : \E b \in DOMAIN tasks \ {a} :
        timer[a].pc = "called" /\ timer[b].pc = "called"

\* The calls of the API and the lock blocks of other firings that wait for
\* the lock can each take it and run.
OthersCanRun(t) ==
    /\ \E u \in GoodUnits : ENABLED (LockFree /\ ScheduleTask(MaxInterval, u))
    /\ \A c \in DOMAIN tasks :
          /\ ENABLED (LockFree /\ CancelTask(c))
          /\ \E i \in Intervals, u \in GoodUnits :
                ENABLED (LockFree /\ UpdateTask(c, i, u))
          /\ ENABLED (LockFree /\ GetTaskStatus(c))
    /\ ENABLED (LockFree /\ ListScheduledTasks)
    /\ \A b \in DOMAIN tasks \ {t} :
          timer[b].pc \in {"check", "resched"} =>
              ENABLED AcquireLock(b, TRUE, timer[b])

\* C17: a firing that is inside its function does not hold the lock: unless
\* the firing of another task holds it just then (and then that one can give
\* it back), schedule, cancel, update_interval, list, status and the lock
\* blocks of other firings can each take the lock and run, however long the
\* function takes.
C17_ActionOutsideLock ==
    \A t \in DOMAIN tasks :
        timer[t].pc = "called" =>
            /\ ~HoldsLock(timer[t])
            /\ \A b \in DOMAIN tasks \ {t} :
                  HoldsLock(timer[b]) =>
                      ENABLED (LockedCheck(b, TRUE, timer[b]) \/
                               LockedReschedule(b, TRUE, timer[b]))
            /\ (\A b \in DOMAIN tasks \ {t} : ~HoldsLock(timer[b])) =>
                  OthersCanRun(t)

\* C17 witness: a task is inside its function while the firing of the other
\* task is inside a lock block.
C17_Witness ==
    \E a \in DOMAIN tasks : \E b \in DOMAIN tasks \ {a} :
        timer[a].pc = "called" /\ HoldsLock(timer[b])

\* C18: schedule starts the timer of the new task if and only if the
\* scheduler is running; scheduled while it is not running, the task has
\* status scheduled and a timer that was not started, and a timer that was
\* not started never expires: it stays, is cancelled, or start(), update_task
\* or a reschedule puts a started timer in its place.
C18_ScheduleArmsIffRunning ==
    [][/\ \A i \in Intervals, u \in GoodUnits :
             (ScheduleTask(i, u) /\ Len(tasks') = Len(tasks) + 1) =>
                 /\ (timer'[Len(tasks')].pc = "waiting") <=> running
                 /\ ~running =>
                       /\ timer'[Len(tasks')] = NewTimer
                       /\ tasks'[Len(tasks')].status = "scheduled"
       /\ \A t \in DOMAIN tasks :
             timer[t].pc = "new" =>
                 /\ timer'[t].pc \in {"new", "dead", "waiting"}
                 /\ timer'[t].pc = "waiting" =>
                       \/ StartScheduler
                       \/ \E i \in Intervals, u \in GoodUnits : UpdateTask(t, i, u)
                       \/ \E x \in ThreadsOf(t) : RunTaskReschedule(t, x[1], x[2])]_vars

\* C18 witness: a task scheduled while the scheduler was not running still
\* has its unstarted timer and has not fired although its interval is over.
C18_Witness ==
    /\ ~running
    /\ \E t \in DOMAIN tasks :
          /\ timer[t] = NewTimer
          /\ tasks[t].status = "scheduled"
          /\ tasks[t].last_run = None
          /\ tasks[t].next_run < TimeNow

\* C19: run_now on an id that is not registered or on a cancelled task
\* raises nothing, starts no firing, cancels no timer and changes no field
\* of any task.
C19_RunNowNoOp ==
    [][\A t \in CallIds :
          (RunNow(t) /\ (~Exists(t) \/ tasks[t].cancelled)) =>
              /\ ~err'
              /\ UNCHANGED <<tasks, timer, orphans, running>>]_vars

\* C19 witness: a cancelled task that has never fired has an armed timer,
\* which run_now would cancel if it acted.
C19_Witness ==
    \E t \in DOMAIN tasks :
        /\ tasks[t].cancelled
        /\ tasks[t].last_run = None
        /\ orphans[t] = EmptyBag
        /\ timer[t].pc = "waiting"

\* C20: with an id that is not in the registry, cancel raises nothing and
\* leaves the whole scheduler as it is, and status raises nothing and
\* returns None.
C20_UnknownIdIsSilent ==
    [][\A t \in CallIds :
          ~Exists(t) =>
              /\ CancelTask(t) =>
                    /\ ~err'
                    /\ UNCHANGED <<tasks, timer, orphans, running>>
              /\ GetTaskStatus(t) =>
                    /\ ~err'
                    /\ got'.kind = "status"
                    /\ got'.refs = <<>>
                    /\ UNCHANGED <<tasks, timer, orphans, running>>]_vars

\* C20 witness: status returned None while a task was registered with its
\* timer armed.
C20_Witness ==
    /\ got.kind = "status"
    /\ got.refs = <<>>
    /\ \E t \in DOMAIN tasks : timer[t].pc = "waiting"

\* C21: update_task with a valid unit on a registered task cancels the timer
\* that was pending, sets interval to the seconds the unit gives and
\* next_run to now plus that, and arms one new timer of that delay; nothing
\* else of the task changes.
C21_UpdateRearms ==
    [][\A t \in DOMAIN tasks : \A i \in Intervals, u \in GoodUnits :
          UpdateTask(t, i, u) =>
              LET seconds == i * AllowedFactor(u) IN
              /\ ~err'
              /\ tasks' = [tasks EXCEPT ![t].interval = seconds,
                                        ![t].unit = u,
                                        ![t].next_run = TimeNow + seconds]
              /\ timer'[t] = Thr("waiting", TimeNow + seconds, FALSE, "none")
              /\ CountIn(orphans'[t], Outstanding) = CountIn(orphans[t], Outstanding)
              /\ ThreadCount(t, Firing)' = ThreadCount(t, Firing)
              /\ running' = running]_vars

\* C21 witness: a task that is not cancelled has an armed timer due at its
\* next_run while the scheduler is not running: update_task armed it.
C21_Witness ==
    /\ ~running
    /\ \E t \in DOMAIN tasks :
          /\ ~tasks[t].cancelled
          /\ timer[t].pc = "waiting"
          /\ timer[t].dl = tasks[t].next_run
          /\ tasks[t].next_run = tasks[t].interval

AtNotify(th) == th.pc = "notify"

\* C22: a firing calls _notify exactly when its function has returned and a
\* notification configuration is set (line 41), and then once, with the
\* task's id and the result; a firing whose function raised, or that finds
\* no configuration, calls none, and nothing else calls it.
C22_NotifiesOnSuccessOnly ==
    [][/\ \A t \in DOMAIN tasks : \A x \in ThreadsOf(t) :
             /\ RunTaskStatus(t, x[1], x[2]) =>
                   /\ notified' = notified
                   /\ ThreadCount(t, AtNotify)' =
                         ThreadCount(t, AtNotify) +
                           (IF x[2].pc = "res" /\ notification_config # None
                            THEN 1 ELSE 0)
             /\ (x[2].pc = "notify" /\ NotifyThreadStep(t, x[1], x[2])) =>
                   /\ x[2].out = "ok"
                   /\ notified' = Append(notified, <<t, ActionResult>>)
                   /\ ThreadCount(t, AtNotify)' = ThreadCount(t, AtNotify) - 1
       /\ notified' # notified =>
             \E t \in DOMAIN tasks : \E x \in ThreadsOf(t) :
                 x[2].pc = "notify" /\ NotifyThreadStep(t, x[1], x[2])]_vars

\* C22 witness: a firing that succeeded has called _notify, and a firing
\* that failed has since recorded its error without another call.
C22_Witness ==
    \E t \in DOMAIN tasks :
        /\ notified = << <<t, ActionResult>> >>
        /\ notification_config # None
        /\ tasks[t].last_error = Some(ActionError)
        /\ tasks[t].status = "error"

\* C23: start_scheduler, the scheduler not running, sets running and arms
\* for every task that is not cancelled and whose timer is not alive one
\* timer that expires at next_run, or at once if next_run has passed; the
\* other timers and the tasks are left alone.  Called while running it
\* changes nothing.
C23_StartArmsRemaining ==
    [][StartScheduler =>
          /\ tasks' = tasks /\ orphans' = orphans
          /\ IF running
             THEN running' /\ timer' = timer
             ELSE /\ running'
                  /\ \A t \in DOMAIN tasks :
                        timer'[t] =
                          IF ~tasks[t].cancelled /\ ~IsAlive(timer[t])
                          THEN Thr("waiting",
                                   IF tasks[t].next_run > TimeNow
                                   THEN tasks[t].next_run ELSE TimeNow,
                                   FALSE, "none")
                          ELSE timer[t]]_vars

\* C23 witness: the scheduler was started after the first run of a task was
\* due, and the task's timer expires at once.
C23_Witness ==
    /\ running
    /\ \E t \in DOMAIN tasks :
          /\ ~tasks[t].cancelled /\ tasks[t].last_run = None
          /\ tasks[t].next_run < TimeNow
          /\ timer[t] = Thr("waiting", TimeNow, FALSE, "none")

\* The factor the claim gives for each spelling of a unit name.
SpellingFactor ==
    [u \in AnyCaseUnits |->
        CASE u \in CaseSpellings(U_seconds) -> 1
          [] u \in CaseSpellings(U_minutes) -> 60
          [] u \in CaseSpellings(U_hours) -> 3600
          [] u \in CaseSpellings(U_days) -> 86400]

\* C24: a call of schedule_task or update_task with any upper- and
\* lower-case spelling of seconds, minutes, hours or days is not refused and
\* stores the interval times 1, 60, 3600 or 86400.
C24_UnitCaseIgnored ==
    [][/\ ~err'
       /\ Len(tasks') > Len(tasks) =>
             LET n == Len(tasks') IN
             \A i \in Intervals :
                 ScheduleTask(i, tasks'[n].unit) =>
                     tasks'[n].interval = i * SpellingFactor[tasks'[n].unit]
       /\ \A t \in DOMAIN tasks : \A i \in Intervals :
             UpdateTask(t, i, tasks'[t].unit) =>
                 tasks'[t].interval = i * SpellingFactor[tasks'[t].unit]]_vars

\* C24 witness: a task scheduled in hours, spelled with capital letters.
C24_Witness ==
    \E t \in DOMAIN tasks :
        /\ tasks[t].unit = <<"H","o","U","R","s">>
        /\ tasks[t].interval = MaxInterval * 3600

\* C25: every step of a firing that writes a field of the task dict is taken
\* while that firing holds the lock.
C25_WritesUnderLock ==
    [][\A t \in DOMAIN tasks : \A x \in ThreadsOf(t) :
          (LockThreadStep(t, x[1], x[2]) /\ tasks'[t] # tasks[t]) =>
              HoldsLock(x[2])]_vars

\* C26: the reschedule step of any firing, the scheduler running and the
\* task not cancelled, sets next_run to now plus the interval and arms one
\* timer of a full interval; otherwise it arms no timer and leaves the task,
\* next_run included, as it is.
C26_RescheduleOnlyWhenRunning ==
    [][\A t \in DOMAIN tasks : \A x \in ThreadsOf(t) :
          RunTaskReschedule(t, x[1], x[2]) =>
              IF running /\ ~tasks[t].cancelled
              THEN /\ tasks'[t].next_run = TimeNow + tasks[t].interval
                   /\ timer'[t] = FullTimer(t)
                   /\ ThreadCount(t, Outstanding)' =
                         ThreadCount(t, Outstanding) + 1
              ELSE /\ tasks' = tasks
                   /\ ThreadCount(t, Outstanding)' = ThreadCount(t, Outstanding)
                   /\ timer'[t].pc # "waiting" \/ timer'[t] = timer[t]]_vars

\* C26 witness: a firing of a task that is not cancelled has ended after the
\* scheduler was stopped, and the task has no timer.
C26_Witness ==
    /\ ~running
    /\ \E t \in DOMAIN tasks :
          /\ ~tasks[t].cancelled
          /\ tasks[t].status = "completed"
          /\ timer[t].pc = "exiting"
          /\ ThreadCount(t, Acts) = 0

\* C27: a firing writes one of last_result and last_error and not both: the
\* step that writes last_error, and the one that writes last_result, is
\* taken by a firing that has written neither.
C27_OneOutcomePerFiring ==
    [][\A t \in DOMAIN tasks : \A x \in ThreadsOf(t) :
          (\/ RunTaskReturn(t, x[1], x[2])
           \/ RunTaskRaise(t, x[1], x[2])
           \/ RunTaskNotifyRaise(t, x[1], x[2])) =>
              x[2].out = "none"]_vars

\* C28 as stated: last_run is recorded on success only, so a task whose
\* firings have all failed (status error, no result, no firing under way)
\* has no last_run.
C28_LastRunOnSuccessOnly ==
    \A t \in DOMAIN tasks :
        (/\ tasks[t].status = "error"
         /\ tasks[t].last_result = None
         /\ ThreadCount(t, InFlight) = 0) =>
            tasks[t].last_run = None

\* C28 amended: every firing that passed the cancelled-check writes last_run
\* before it calls the function, and nothing else then; a firing whose
\* function raises writes after that last_error and then status error, and
\* its reschedule step leaves the four outcome fields, so that last_result
\* keeps the value it had before the firing.
C28_FailureKeepsLastResult ==
    [][\A t \in DOMAIN tasks : \A x \in ThreadsOf(t) :
          /\ RunTaskCall(t, x[1], x[2]) =>
                tasks' = [tasks EXCEPT ![t].last_run = Some(TimeNow)]
          /\ RunTaskRaise(t, x[1], x[2]) =>
                tasks' = [tasks EXCEPT ![t].last_error = Some(ActionError)]
          /\ (RunTaskStatus(t, x[1], x[2]) /\ x[2].out = "err") =>
                tasks' = [tasks EXCEPT ![t].status = "error"]
          /\ (RunTaskReschedule(t, x[1], x[2]) /\ x[2].out = "err") =>
                /\ tasks'[t].last_run = tasks[t].last_run
                /\ tasks'[t].last_result = tasks[t].last_result
                /\ tasks'[t].last_error = tasks[t].last_error
                /\ tasks'[t].status = tasks[t].status]_vars

\* C28 witness: the only firing of a task so far has failed and has ended;
\* the task has a last_run and no last_result.
C28_Witness ==
    \E t \in DOMAIN tasks :
        /\ tasks[t].status = "error"
        /\ tasks[t].last_error = Some(ActionError)
        /\ tasks[t].last_result = None
        /\ tasks[t].last_run # None
        /\ ThreadCount(t, InFlight) = 0

\* C29: while the scheduler is not running no task has an armed timer.
C29_NoTimerWhileStopped ==
    ~running => \A t \in DOMAIN tasks : ThreadCount(t, Outstanding) = 0

\* C30: a task whose cancelled flag is set has status cancelled.
C30_CancelledStatusStays ==
    \A t \in DOMAIN tasks :
        tasks[t].cancelled => tasks[t].status = "cancelled"

====
